---- MODULE Spec2Model ----
(***************************************************************************)
(* A model of the scheduler part of src/server.js: the in-memory task lock *)
(* (withTaskLock), the scheduled entry point (processSequences, fired by   *)
(* cron every 30 seconds) and the message dispatcher (enviarMensaje).      *)
(*                                                                         *)
(* Time is Date.now() in milliseconds.  An asynchronous function is split  *)
(* at its awaits: the synchronous part up to the first await is one step,  *)
(* the continuation that runs when the awaited promise settles is another. *)
(***************************************************************************)
EXTENDS Integers, Sequences, FiniteSets, TLC

\* ------------------------------------------------------------ bounds
\* The clock's reading when the process starts (any positive number of ms).
StartMs == 60000
\* How many 30-second periods the clock is followed for.
MaxTicks == 21
\* How many invocations may be pending at once when callers call at will.
MaxRunning == 2
\* How many minutes the clock is followed for when callers call at will.
MaxMinutes == 3
\* The largest job count the queue capability reports.
MaxCount == 1
MaxBodyLen == 10
MaxPieces == 2

\* ------------------------------------------------- program constants
\* cron.schedule('*/30 * * * * *', ...)
TickSeconds == 30
\* withTaskLock('processSequences', 5, ...)
LockTimeoutMinutes == 5
\* const { batchSize = 200 } = options
DefaultBatchSize == 200

TickMs == TickSeconds * 1000
MaxNow == StartMs + MaxTicks * TickMs

\* JavaScript's undefined, for a number-valued slot (numbers here are >= 0).
Undefined == 0 - 1

TaskNames == {"processSequences", "x"}
\* timeoutMinutes as callers may pass it; 5 is the parameter's default.
TimeoutChoices == {1, LockTimeoutMinutes}
\* What an arbitrary action fn may return.
FnValues == {7}
\* options.batchSize as a caller may pass it (Undefined: the option is absent).
BatchChoices == {Undefined, 0, 50}
QueueExportNames == {"processDueSequenceJobs", "processQueue"}

VARIABLES
    now,        \* Date.now()
    taskLocks,  \* _taskLocks: a map from task name to the time of acquisition
    running,    \* the invocations of withTaskLock whose action is pending
    finished,   \* history: per task name, how an invocation finished ("return",
                \* "throw") if no call for that name was made since, else ""
    Q,          \* the function names the queue module exports
    tickDue,    \* cron: the tick of the current 30-second period has not fired
    overran,    \* history: some queue call was still pending 5 minutes after it began
    last,       \* the latest call or settlement, as its caller observes it
    call,       \* the invocation of enviarMensaje under way, or the latest one
    phone,      \* the phone number being normalized, and what it normalized to
    render      \* the template being rendered, and what it rendered to

vars == <<now, taskLocks, running, finished, Q, tickDue, overran, last, call, phone, render>>

\* ------------------------------------------------------------ the Map
EmptyMap == [k \in {} |-> 0]

MapHas(m, k) == k \in DOMAIN m

\* Map.prototype.get: undefined when the key is absent.
MapGet(m, k) == IF k \in DOMAIN m THEN m[k] ELSE Undefined

MapSet(m, k, v) == [x \in (DOMAIN m) \cup {k} |-> IF x = k THEN v ELSE m[x]]

MapDelete(m, k) == [x \in (DOMAIN m) \ {k} |-> m[x]]

\* JavaScript truthiness of a number-or-undefined.
Truthy(v) == v # Undefined /\ v # 0

\* ------------------------------------------------------- withTaskLock
TimeoutMs(timeoutMinutes) == timeoutMinutes * 60 * 1000

\* if (existing && now - existing < timeoutMinutes * 60 * 1000)
\* (variants: <= for <; seconds for milliseconds)
IsLockedInclusive(existing, t, timeoutMinutes) ==
    Truthy(existing) /\ t - existing <= TimeoutMs(timeoutMinutes)

IsLockedSeconds(existing, t, timeoutMinutes) ==
    Truthy(existing) /\ t - existing < timeoutMinutes * 60

IsLocked(existing, t, timeoutMinutes) ==
    Truthy(existing) /\ t - existing < TimeoutMs(timeoutMinutes)

\* An outcome of an awaited call: a returned value or a thrown error.
Returned(v) == [kind |-> "return", value |-> v]
Thrown == [kind |-> "throw", value |-> 0]
NoOutcome == [kind |-> "none", value |-> 0]

\* try { return await fn(); } finally { _taskLocks.delete(taskName); }
\* The map after the action settled with outcome o
\* (variant: the delete after the await, with no finally).
FinallyOnlyOnReturn(locks, taskName, o) ==
    IF o.kind = "throw" THEN locks ELSE MapDelete(locks, taskName)

Finally(locks, taskName, o) == MapDelete(locks, taskName)

\* return await fn(): the action's value is returned, its error is rethrown.
WithTaskLockOutcome(o) == o

\* --------------------------------------------------- processSequences
\* const { batchSize = 200 } = options: the default applies to undefined only
\* (variant: options.batchSize || 200).
BatchSizeFalsy(optBatch) ==
    IF optBatch = Undefined \/ optBatch = 0 THEN DefaultBatchSize ELSE optBatch

BatchSize(optBatch) ==
    IF optBatch = Undefined THEN DefaultBatchSize ELSE optBatch

\* The queue function the closure picks among the module's exports, or "null".
QueueFn(exports) ==
    IF "processDueSequenceJobs" \in exports THEN "processDueSequenceJobs"
    ELSE IF "processQueue" \in exports THEN "processQueue"
    ELSE "null"

\* The calls the closure makes to the queue capability before its first await.
ClosureCalls(fn, batchSize) ==
    IF fn = "null" THEN << >> ELSE << [fn |-> fn, batchSize |-> batchSize] >>

\* try { const processed = await fn({ batchSize }); return processed; }
\* catch (err) { return 0; }
\* (variants: no catch; no return of processed)
ClosureOutcomeRethrow(queueOutcome) == queueOutcome

ClosureOutcomeNoReturn(queueOutcome) == Returned(Undefined)

ClosureOutcome(queueOutcome) ==
    IF queueOutcome.kind = "throw" THEN Returned(0) ELSE queueOutcome

\* ------------------------------------------------------------ strings
\* A string is the sequence of its characters.
DigitChars == {"0", "1", "2", "3", "4", "5", "6", "7", "8", "9"}
UpperChars == <<"A", "B", "C", "D", "E", "F", "G", "H", "I", "J", "K", "L", "M",
                "N", "O", "P", "Q", "R", "S", "T", "U", "V", "W", "X", "Y", "Z">>
LowerChars == <<"a", "b", "c", "d", "e", "f", "g", "h", "i", "j", "k", "l", "m",
                "n", "o", "p", "q", "r", "s", "t", "u", "v", "w", "x", "y", "z">>
\* \w
WordChars ==
    DigitChars \cup {"_"} \cup {UpperChars[i] : i \in 1..26} \cup {LowerChars[i] : i \in 1..26}
\* \s, as far as the inputs go
SpaceChars == {" ", "\n", "\r", "\t"}
\* A UTF-16 code unit that is half of a pair, alone.
LoneSurrogate == "\\uD800"

IsDigit(c) == c \in DigitChars

\* .replace(/\D/g, '')
StripNonDigits(s) == SelectSeq(s, IsDigit)

StartsWith(s, p) == Len(s) >= Len(p) /\ SubSeq(s, 1, Len(p)) = p

\* s.slice(k)
Slice(s, k) == SubSeq(s, k + 1, Len(s))

RECURSIVE TrimStart(_)
TrimStart(s) ==
    IF s # << >> /\ Head(s) \in SpaceChars THEN TrimStart(Tail(s)) ELSE s

RECURSIVE TrimEnd(_)
TrimEnd(s) ==
    IF s # << >> /\ s[Len(s)] \in SpaceChars THEN TrimEnd(SubSeq(s, 1, Len(s) - 1)) ELSE s

\* String.prototype.trim
Trim(s) == TrimEnd(TrimStart(s))

LowerChar(c) ==
    IF \E i \in 1..26 : UpperChars[i] = c
    THEN LowerChars[CHOOSE i \in 1..26 : UpperChars[i] = c]
    ELSE c

\* (variant: the type is compared as it is written.)
ToLowerCaseIdentity(s) == s

\* String.prototype.toLowerCase
ToLowerCase(s) == [i \in 1..Len(s) |-> LowerChar(s[i])]

\* The first index >= i of s that holds no character of the set, or Len(s) + 1.
RECURSIVE RunEnd(_, _, _)
RunEnd(s, i, set) ==
    IF i <= Len(s) /\ s[i] \in set THEN RunEnd(s, i + 1, set) ELSE i

\* The first index >= i of s where pat occurs, or 0.
RECURSIVE IndexOf(_, _, _)
IndexOf(s, pat, i) ==
    IF i + Len(pat) - 1 > Len(s) THEN 0
    ELSE IF SubSeq(s, i, i + Len(pat) - 1) = pat THEN i
    ELSE IndexOf(s, pat, i + 1)

\* s.replace(pat, repl) with a string pattern: the first occurrence only.
ReplaceFirst(s, pat, repl) ==
    LET i == IndexOf(s, pat, 1)
    IN  IF i = 0 THEN s
        ELSE SubSeq(s, 1, i - 1) \o repl \o SubSeq(s, i + Len(pat), Len(s))

\* s.replace(/\r?\n/g, ' ')
RECURSIVE ReplaceNewlines(_)
ReplaceNewlines(s) ==
    IF s = << >> THEN << >>
    ELSE IF Len(s) >= 2 /\ s[1] = "\r" /\ s[2] = "\n"
         THEN <<" ">> \o ReplaceNewlines(Slice(s, 2))
    ELSE IF s[1] = "\n" THEN <<" ">> \o ReplaceNewlines(Tail(s))
    ELSE <<s[1]>> \o ReplaceNewlines(Tail(s))

\* encodeURIComponent leaves these as they are.
UnreservedChars == WordChars \cup {"-", ".", "!", "~", "*", "'", "(", ")"}

\* The percent-escape of a reserved character (UTF-8, upper-case hex).
PercentEscape(c) ==
    CASE c = " " -> <<"%", "2", "0">>
      [] c = "\n" -> <<"%", "0", "A">>
      [] c = "\r" -> <<"%", "0", "D">>
      [] c = "\t" -> <<"%", "0", "9">>
      [] c = "{" -> <<"%", "7", "B">>
      [] c = "}" -> <<"%", "7", "D">>
      [] c = "+" -> <<"%", "2", "B">>
      [] c = "/" -> <<"%", "2", "F">>
      [] c = ":" -> <<"%", "3", "A">>
      [] c = "@" -> <<"%", "4", "0">>
      [] c = "&" -> <<"%", "2", "6">>
      [] c = "=" -> <<"%", "3", "D">>
      [] c = "?" -> <<"%", "3", "F">>

\* encodeURIComponent throws URIError on a lone surrogate.
EncodeThrows(s) == \E i \in 1..Len(s) : s[i] = LoneSurrogate

RECURSIVE encodeURIComponent(_)
encodeURIComponent(s) ==
    IF s = << >> THEN << >>
    ELSE (IF Head(s) \in UnreservedChars THEN <<Head(s)>> ELSE PercentEscape(Head(s)))
         \o encodeURIComponent(Tail(s))

\* --------------------------------------------- telefonos / placeholders
S_52 == <<"5", "2">>
S_521 == <<"5", "2", "1">>
S_plus == <<"+">>
S_suffix == <<"@", "s", ".", "w", "h", "a", "t", "s", "a", "p", "p", ".", "n", "e", "t">>
K_telefono == <<"t", "e", "l", "e", "f", "o", "n", "o">>
K_phone == <<"p", "h", "o", "n", "e">>
K_whatsapp == <<"w", "h", "a", "t", "s", "a", "p", "p">>
K_nombre == <<"n", "o", "m", "b", "r", "e">>
P_telefono == <<"{", "{">> \o K_telefono \o <<"}", "}">>
P_nombre == <<"{", "{">> \o K_nombre \o <<"}", "}">>

\* parsePhoneNumberFromString(raw, 'MX') of libphonenumber-js, when the result
\* is valid: the E.164 form of a Mexican number, +52 and ten national digits
\* (the country code, and the mobile 1 after it, are taken off the input).
ParsedNumber(raw) ==
    IF Len(raw) = 13 /\ StartsWith(raw, S_521) THEN S_plus \o S_52 \o Slice(raw, 3)
    ELSE IF Len(raw) = 12 /\ StartsWith(raw, S_52) THEN S_plus \o raw
    ELSE S_plus \o S_52 \o raw

\* Whether the library can find raw valid at all (which of these it does find
\* valid rests on its numbering-plan metadata).
MayBeValid(raw) ==
    \/ Len(raw) = 10
    \/ Len(raw) = 12 /\ StartsWith(raw, S_52)
    \/ Len(raw) = 13 /\ StartsWith(raw, S_521)

\* (variant: no fallback for 10 digits.)
toE164NoLocalFallback(num, valid) ==
    LET raw == StripNonDigits(num)
    IN  IF raw = << >> THEN << >>
        ELSE IF valid /\ MayBeValid(raw) THEN ParsedNumber(raw)
        ELSE IF Len(raw) \in 11..15 /\ StartsWith(raw, S_521) THEN S_plus \o raw
        ELSE IF Len(raw) \in 11..15 /\ StartsWith(raw, S_52) THEN S_plus \o raw
        ELSE S_plus \o raw

\* toE164(num, 'MX'); valid: p && p.isValid().
toE164(num, valid) ==
    LET raw == StripNonDigits(num)
    IN  IF raw = << >> THEN << >>
        ELSE IF valid /\ MayBeValid(raw) THEN ParsedNumber(raw)
        ELSE IF Len(raw) = 10 THEN S_plus \o S_52 \o raw
        ELSE IF Len(raw) \in 11..15 /\ StartsWith(raw, S_521) THEN S_plus \o raw
        ELSE IF Len(raw) \in 11..15 /\ StartsWith(raw, S_52) THEN S_plus \o raw
        ELSE S_plus \o raw

\* (variant: 10 digits get the country code without the mobile 1.)
normalizePhoneForWANoMobile(num0) ==
    LET num == StripNonDigits(num0)
    IN  IF Len(num) = 12 /\ StartsWith(num, S_52) /\ ~StartsWith(num, S_521)
        THEN S_521 \o Slice(num, 2)
        ELSE IF Len(num) = 10 THEN S_52 \o num
        ELSE num

normalizePhoneForWA(num0) ==
    LET num == StripNonDigits(num0)
    IN  IF Len(num) = 12 /\ StartsWith(num, S_52) /\ ~StartsWith(num, S_521)
        THEN S_521 \o Slice(num, 2)
        ELSE IF Len(num) = 10 THEN S_521 \o num
        ELSE num

e164ToJid(e164) == normalizePhoneForWA(StripNonDigits(e164)) \o S_suffix

\* String(n).trim().split(/\s+/)[0] || ''
firstName(n) ==
    LET t == Trim(n)
    IN  SubSeq(t, 1, RunEnd(t, 1, {t[i] : i \in 1..Len(t)} \ SpaceChars) - 1)

K_constructor == <<"c", "o", "n", "s", "t", "r", "u", "c", "t", "o", "r">>

\* What a plain object inherits from Object.prototype, as String() shows it
\* (of its properties, the one the templates of the model name).
ObjectPrototype ==
    K_constructor :>
        <<"f", "u", "n", "c", "t", "i", "o", "n", " ", "O", "b", "j", "e", "c", "t", "(", ")", " ", "{", " ", "[", "n", "a", "t", "i", "v", "e", " ", "c", "o", "d", "e", "]", " ", "}">>

\* leadData?.[field] || '': an attribute the record has not of its own is
\* looked up in its prototype, and reads as undefined when that lacks it too.
Attr(leadData, field) ==
    IF field \in DOMAIN leadData THEN leadData[field]
    ELSE IF field \in DOMAIN ObjectPrototype THEN ObjectPrototype[field]
    ELSE << >>

\* The last index of a token {{identifier}} that begins at index i of s, or 0.
TokenEnd(s, i) ==
    LET k == RunEnd(s, i + 2, WordChars)
    IN  IF /\ i + 1 <= Len(s) /\ s[i] = "{" /\ s[i + 1] = "{"
           /\ k > i + 2
           /\ k + 1 <= Len(s) /\ s[k] = "}" /\ s[k + 1] = "}"
        THEN k + 1 ELSE 0

\* str.replace(/\{\{(\w+)\}\}/g, (_, field) => ...), from index i on.
RECURSIVE ReplaceFrom(_, _, _)
ReplaceFrom(s, i, leadData) ==
    IF i > Len(s) THEN << >>
    ELSE LET e == TokenEnd(s, i)
             field == SubSeq(s, i + 2, e - 2)
             value == Attr(leadData, field)
         IN  IF e = 0 THEN <<s[i]>> \o ReplaceFrom(s, i + 1, leadData)
             ELSE (IF field = K_nombre THEN firstName(value) ELSE value)
                  \o ReplaceFrom(s, e + 1, leadData)

replacePlaceholders(template, leadData) == ReplaceFrom(template, 1, leadData)

\* ------------------------------------------------------ enviarMensaje
T_texto == <<"t", "e", "x", "t", "o">>
T_formulario == <<"f", "o", "r", "m", "u", "l", "a", "r", "i", "o">>
T_audio == <<"a", "u", "d", "i", "o">>
T_imagen == <<"i", "m", "a", "g", "e", "n">>
T_video == <<"v", "i", "d", "e", "o">>

\* What sock.sendMessage(jid, content) is called with.
TextPayload(jid, text) ==
    [jid |-> jid, key |-> "text", value |-> text, linkPreview |-> "false", ptt |-> "absent"]
AudioPayload(jid, url) ==
    [jid |-> jid, key |-> "audio", value |-> url, linkPreview |-> "absent", ptt |-> "true"]
ImagePayload(jid, url) ==
    [jid |-> jid, key |-> "image", value |-> url, linkPreview |-> "absent", ptt |-> "absent"]
VideoPayload(jid, url) ==
    [jid |-> jid, key |-> "video", value |-> url, linkPreview |-> "absent", ptt |-> "absent"]

\* lead.telefono || lead.phone || lead.whatsapp
LeadPhone(attrs) ==
    IF Attr(attrs, K_telefono) # << >> THEN Attr(attrs, K_telefono)
    ELSE IF Attr(attrs, K_phone) # << >> THEN Attr(attrs, K_phone)
    ELSE Attr(attrs, K_whatsapp)

\* (mensaje?.type || 'texto'), before .toLowerCase()
TypeOrDefault(mensaje) ==
    IF mensaje.nullish \/ mensaje.type = << >> THEN T_texto ELSE mensaje.type

\* mensaje?.contenido || ''
Contenido(mensaje) == IF mensaje.nullish THEN << >> ELSE mensaje.contenido

\* The text of a 'formulario' message.
FormText(contenido, e164, attrs) ==
    Trim(ReplaceNewlines(
        ReplaceFirst(
            ReplaceFirst(contenido, P_telefono, StripNonDigits(e164)),
            P_nombre, encodeURIComponent(Attr(attrs, K_nombre)))))

\* (variant: a case without its if (text).)
SendIfAlways(text, payload) == <<payload>>

\* One case of the switch: the send it makes when its text is not empty.
SendIf(text, payload) == IF text # << >> THEN <<payload>> ELSE << >>

\* switch (tipo) { ... }: the sends the statement makes, in order
\* (variant: case 'audio' without its break).
SwitchSendsNoBreak(tipo, jid, contenido, e164, attrs) ==
    LET rendered == Trim(replacePlaceholders(contenido, attrs))
    IN  IF tipo = T_texto THEN SendIf(rendered, TextPayload(jid, rendered))
        ELSE IF tipo = T_formulario
             THEN SendIf(FormText(contenido, e164, attrs),
                         TextPayload(jid, FormText(contenido, e164, attrs)))
        ELSE IF tipo = T_audio
             THEN SendIf(rendered, AudioPayload(jid, rendered))
                  \o SendIf(rendered, ImagePayload(jid, rendered))
        ELSE IF tipo = T_imagen THEN SendIf(rendered, ImagePayload(jid, rendered))
        ELSE IF tipo = T_video THEN SendIf(rendered, VideoPayload(jid, rendered))
        ELSE << >>

\* (variant: the default case sends the content as text.)
SwitchSendsDefaultText(tipo, jid, contenido, e164, attrs) ==
    LET rendered == Trim(replacePlaceholders(contenido, attrs))
    IN  IF tipo = T_formulario
        THEN SendIf(FormText(contenido, e164, attrs),
                    TextPayload(jid, FormText(contenido, e164, attrs)))
        ELSE IF tipo = T_audio THEN SendIf(rendered, AudioPayload(jid, rendered))
        ELSE IF tipo = T_imagen THEN SendIf(rendered, ImagePayload(jid, rendered))
        ELSE IF tipo = T_video THEN SendIf(rendered, VideoPayload(jid, rendered))
        ELSE SendIf(rendered, TextPayload(jid, rendered))

SwitchSends(tipo, jid, contenido, e164, attrs) ==
    LET rendered == Trim(replacePlaceholders(contenido, attrs))
    IN  IF tipo = T_texto THEN SendIf(rendered, TextPayload(jid, rendered))
        ELSE IF tipo = T_formulario
             THEN SendIf(FormText(contenido, e164, attrs),
                         TextPayload(jid, FormText(contenido, e164, attrs)))
        ELSE IF tipo = T_audio THEN SendIf(rendered, AudioPayload(jid, rendered))
        ELSE IF tipo = T_imagen THEN SendIf(rendered, ImagePayload(jid, rendered))
        ELSE IF tipo = T_video THEN SendIf(rendered, VideoPayload(jid, rendered))
        ELSE << >>

\* Whether the body of the try throws before it awaits anything: lead is
\* null or undefined, mensaje.type is truthy and no string (.toLowerCase is
\* no function), or encodeURIComponent rejects the lead's name.
SyncThrows(sock, lead, mensaje, valid) ==
    /\ sock # "null"
    /\ \/ lead.nullish
       \/ /\ toE164(LeadPhone(lead.attrs), valid) # << >>
          /\ \/ ~mensaje.nullish /\ mensaje.typeKind = "other"
             \/ /\ ToLowerCase(TypeOrDefault(mensaje)) = T_formulario
                /\ EncodeThrows(Attr(lead.attrs, K_nombre))

\* (variant: no return on an empty e164.)
SendPlanNoPhoneCheck(sock, lead, mensaje, valid) ==
    LET e164 == toE164(LeadPhone(lead.attrs), valid)
    IN  IF sock = "null" THEN << >>
        ELSE SwitchSends(ToLowerCase(TypeOrDefault(mensaje)), e164ToJid(e164),
                         Contenido(mensaje), e164, lead.attrs)

\* The sends the body of the try makes when nothing throws.
SendPlan(sock, lead, mensaje, valid) ==
    LET e164 == toE164(LeadPhone(lead.attrs), valid)
    IN  IF sock = "null" THEN << >>
        ELSE IF e164 = << >> THEN << >>
        ELSE SwitchSends(ToLowerCase(TypeOrDefault(mensaje)), e164ToJid(e164),
                         Contenido(mensaje), e164, lead.attrs)

\* try { ... } catch (err) { console.error(...) }: how the promise that
\* enviarMensaje returns settles when the body of the try ended with o
\* (variant: no catch).
EnviarOutcomeRethrow(o) == o

EnviarOutcome(o) == IF o.kind = "throw" THEN Returned(Undefined) ELSE o

\* ------------------------------------------- inputs of enviarMensaje
PhoneLocal == <<"5", "5", "1", "2", "3", "4", "5", "6", "7", "8">>
PhonePretty == <<"+", "5", "2", " ", "1", " ", "(", "5", "5", ")", " ", "1", "2", "3", "4", "-", "5", "6", "7", "8">>
PhoneNoDigits == <<"n", "/", "a">>
NameJuan == <<" ", "J", "u", "a", "n", " ", " ", "P", "e", "r", "e", "z">>
NameBroken == <<"A", LoneSurrogate>>
K_ciudad == <<"c", "i", "u", "d", "a", "d">>

NoAttrs == [k \in {} |-> << >>]

Leads ==
    { [nullish |-> TRUE, attrs |-> NoAttrs],
      [nullish |-> FALSE, attrs |-> NoAttrs],
      [nullish |-> FALSE, attrs |-> (K_telefono :> PhoneLocal) @@ (K_nombre :> NameJuan)],
      [nullish |-> FALSE, attrs |-> (K_whatsapp :> PhonePretty)],
      [nullish |-> FALSE, attrs |-> (K_telefono :> PhoneNoDigits) @@ (K_nombre :> NameJuan)],
      [nullish |-> FALSE, attrs |-> (K_phone :> PhoneLocal) @@ (K_nombre :> NameBroken)] }

MessageTypes ==
    { << >>, T_texto, <<"T", "E", "X", "T", "O">>, <<"t", "e", "x", "t">>, T_formulario, <<"F", "o", "r", "m", "u", "l", "a", "r", "i", "o">>,
      T_audio, T_imagen, T_video, <<"s", "t", "i", "c", "k", "e", "r">> }

Contents ==
    { << >>,
      <<" ", "\n">>,
      <<"H", "o", "l", "a", " ", "{", "{", "n", "o", "m", "b", "r", "e", "}", "}">>,
      <<"{", "{", "n", "o", "m", "b", "r", "e", "}", "}">>,
      <<" ", "{", "{", "c", "i", "u", "d", "a", "d", "}", "}", "\n">>,
      <<"f", "?", "t", "=", "{", "{", "t", "e", "l", "e", "f", "o", "n", "o", "}", "}", "&", "n", "=", "{", "{", "n", "o", "m", "b", "r", "e", "}", "}", "\r", "\n", "{", "{", "t", "e", "l", "e", "f", "o", "n", "o", "}", "}">> }

Mensajes ==
    { [nullish |-> TRUE, typeKind |-> "string", type |-> << >>, contenido |-> << >>] }
    \cup { [nullish |-> FALSE, typeKind |-> "string", type |-> t, contenido |-> c] :
              t \in MessageTypes, c \in Contents }
    \cup { [nullish |-> FALSE, typeKind |-> "other", type |-> << >>, contenido |-> c] :
              c \in Contents }

\* getWhatsAppSock(): null, or the socket.
Socks == {"null", "open"}

IdleCall ==
    [pc |-> "idle", sock |-> "null", lead |-> [nullish |-> TRUE, attrs |-> NoAttrs],
     mensaje |-> [nullish |-> TRUE, typeKind |-> "string", type |-> << >>,
                  contenido |-> << >>],
     valid |-> FALSE, sent |-> << >>, todo |-> << >>, raised |-> "none",
     outcome |-> NoOutcome]

\* ------------------------------------------------------------ steps
NoLast ==
    [op |-> "init", id |-> 0, taskName |-> "", timeoutMinutes |-> 0, kind |-> "",
     existing |-> Undefined, invoked |-> FALSE, outcome |-> NoOutcome,
     mapChanged |-> FALSE, prevAge |-> 0, prevRunning |-> FALSE,
     afterFinish |-> "", pending |-> 0, optBatch |-> Undefined,
     calls |-> << >>, queueOutcome |-> NoOutcome]

\* An identity for a new invocation: one that no pending invocation bears.
FreshId ==
    CHOOSE i \in 1..(Cardinality(running) + 1) : \A r \in running : r.id # i

\* The pending invocation that made the latest acquisition for taskName, if it
\* is still pending (latest: no later invocation acquired that name).
LatestHolders(taskName) == {r \in running : r.taskName = taskName /\ r.latest}

QueueCallsInFlight == {r \in running : r.kind = "queue"}

\* A continuation that runs as a microtask, before any timer or I/O callback.
MicrotaskPending == \E r \in running : r.kind = "noqueue"

\* The synchronous part of withTaskLock(taskName, timeoutMinutes, fn), up to
\* its await; what stands for fn: "fn" (an arbitrary pending action) or
\* "closure" (processSequences's closure, called with options.batchSize).
WithTaskLock(taskName, timeoutMinutes, what, optBatch) ==
    LET existing == MapGet(taskLocks, taskName)
        fn == QueueFn(Q)
        calls == IF what = "closure" THEN ClosureCalls(fn, BatchSize(optBatch)) ELSE << >>
        kind == IF what = "fn" THEN "fn" ELSE IF fn = "null" THEN "noqueue" ELSE "queue"
        obs == [NoLast EXCEPT !.op = "call", !.taskName = taskName,
                  !.timeoutMinutes = timeoutMinutes, !.kind = kind,
                  !.existing = existing,
                  !.prevRunning = (LatestHolders(taskName) # {}),
                  !.prevAge = IF LatestHolders(taskName) = {} THEN 0
                              ELSE now - (CHOOSE r \in LatestHolders(taskName) : TRUE).acquiredAt,
                  !.afterFinish = finished[taskName],
                  !.pending = Cardinality(QueueCallsInFlight),
                  !.optBatch = optBatch]
    IN  /\ finished' = [finished EXCEPT ![taskName] = ""]
        /\ UNCHANGED <<now, Q, overran, call, phone, render>>
        /\ IF IsLocked(existing, now, timeoutMinutes)
           THEN /\ UNCHANGED <<taskLocks, running>>
                /\ last' = [obs EXCEPT !.outcome = Returned(0),
                              !.mapChanged = (taskLocks' # taskLocks)]
           ELSE /\ taskLocks' = MapSet(taskLocks, taskName, now)
                /\ running' =
                      {IF r.taskName = taskName THEN [r EXCEPT !.latest = FALSE] ELSE r :
                           r \in running}
                      \cup {[id |-> FreshId, taskName |-> taskName,
                             timeoutMinutes |-> timeoutMinutes, acquiredAt |-> now,
                             kind |-> kind, optBatch |-> optBatch, calls |-> calls,
                             latest |-> TRUE]}
                /\ last' = [obs EXCEPT !.id = FreshId, !.invoked = TRUE, !.calls = calls,
                              !.mapChanged = (taskLocks' # taskLocks)]

\* The continuation of withTaskLock after its action settled with outcome o
\* (queueOutcome: what the queue capability did, when the action awaited it).
Settle(r, o, queueOutcome) ==
    /\ running' = running \ {r}
    /\ taskLocks' = Finally(taskLocks, r.taskName, o)
    /\ finished' = [finished EXCEPT ![r.taskName] = o.kind]
    /\ last' = [NoLast EXCEPT !.op = "settle", !.id = r.id, !.taskName = r.taskName,
                  !.timeoutMinutes = r.timeoutMinutes, !.kind = r.kind,
                  !.existing = MapGet(taskLocks, r.taskName), !.invoked = TRUE,
                  !.outcome = WithTaskLockOutcome(o),
                  !.mapChanged = (taskLocks' # taskLocks),
                  !.pending = Cardinality(QueueCallsInFlight),
                  !.optBatch = r.optBatch, !.calls = r.calls,
                  !.queueOutcome = queueOutcome]
    /\ UNCHANGED <<now, Q, tickDue, overran, call, phone, render>>

\* Some caller invokes withTaskLock with an action of its own.
CallWithTaskLock ==
    /\ Cardinality(running) < MaxRunning
    /\ \E n \in TaskNames, tm \in TimeoutChoices : WithTaskLock(n, tm, "fn", Undefined)
    /\ UNCHANGED tickDue

FnReturn ==
    \E r \in running, v \in FnValues :
        r.kind = "fn" /\ Settle(r, Returned(v), NoOutcome)

FnThrow ==
    \E r \in running : r.kind = "fn" /\ Settle(r, Thrown, NoOutcome)

\* processSequences(options), called on demand.
ProcessSequences ==
    /\ Cardinality(running) < MaxRunning
    /\ \E ob \in BatchChoices :
          WithTaskLock("processSequences", LockTimeoutMinutes, "closure", ob)
    /\ UNCHANGED tickDue

\* The promise of the queue capability resolves with a count.
QueueResolve ==
    \E r \in running, n \in 0..MaxCount :
        r.kind = "queue" /\ Settle(r, ClosureOutcome(Returned(n)), Returned(n))

\* The queue capability throws, or its promise rejects.
QueueReject ==
    \E r \in running : r.kind = "queue" /\ Settle(r, ClosureOutcome(Thrown), Thrown)

\* if (!fn) return 0: the closure returned without awaiting anything.
NoQueueReturn ==
    \E r \in running : r.kind = "noqueue" /\ Settle(r, Returned(0), NoOutcome)

Overrun(t) ==
    \E r \in running : r.kind = "queue" /\ t - r.acquiredAt >= TimeoutMs(LockTimeoutMinutes)

\* Time passes (callers call at will).
Advance ==
    /\ now < StartMs + MaxMinutes * 60 * 1000
    /\ now' = now + 60 * 1000
    /\ overran' = (overran \/ Overrun(now'))
    /\ last' = NoLast
    /\ UNCHANGED <<taskLocks, running, finished, Q, tickDue, call, phone, render>>

\* cron.schedule('*/30 * * * * *', () => processSequences().catch(...))
Tick ==
    /\ tickDue
    /\ ~MicrotaskPending
    /\ WithTaskLock("processSequences", LockTimeoutMinutes, "closure", Undefined)
    /\ tickDue' = FALSE

\* The next 30-second period begins once this period's tick has fired.
AdvanceCron ==
    /\ ~tickDue
    /\ ~MicrotaskPending
    /\ now < MaxNow
    /\ now' = now + TickMs
    /\ tickDue' = TRUE
    /\ overran' = (overran \/ Overrun(now'))
    /\ last' = NoLast
    /\ UNCHANGED <<taskLocks, running, finished, Q, call, phone, render>>

\* enviarMensaje(lead, mensaje) is called: its body up to the first await.
\* valid: whether libphonenumber finds the lead's number valid.
Enviar ==
    /\ call.pc = "idle"
    /\ \E sock \in Socks, lead \in Leads, mensaje \in Mensajes, valid \in BOOLEAN :
          LET plan == SendPlan(sock, lead, mensaje, valid)
              c == [IdleCall EXCEPT !.sock = sock, !.lead = lead, !.mensaje = mensaje,
                                    !.valid = valid]
          IN  call' =
                IF SyncThrows(sock, lead, mensaje, valid)
                THEN [c EXCEPT !.pc = "done", !.raised = "sync",
                               !.outcome = EnviarOutcome(Thrown)]
                ELSE IF plan = << >>
                THEN [c EXCEPT !.pc = "done",
                               !.outcome = EnviarOutcome(Returned(Undefined))]
                ELSE [c EXCEPT !.pc = "sending", !.sent = <<Head(plan)>>,
                               !.todo = Tail(plan)]
    /\ UNCHANGED <<now, taskLocks, running, finished, Q, tickDue, overran, last, phone, render>>

\* await sock.sendMessage(...) resumes: the statement after it runs.
SendResolve ==
    /\ call.pc = "sending"
    /\ call' =
          IF call.todo = << >>
          THEN [call EXCEPT !.pc = "done", !.outcome = EnviarOutcome(Returned(Undefined))]
          ELSE [call EXCEPT !.sent = Append(call.sent, Head(call.todo)),
                            !.todo = Tail(call.todo)]
    /\ UNCHANGED <<now, taskLocks, running, finished, Q, tickDue, overran, last, phone, render>>

\* sock.sendMessage(...) throws, or its promise rejects.
SendReject ==
    /\ call.pc = "sending"
    /\ call' = [call EXCEPT !.pc = "done", !.raised = "send",
                            !.outcome = EnviarOutcome(Thrown)]
    /\ UNCHANGED <<now, taskLocks, running, finished, Q, tickDue, overran, last, phone, render>>

\* The caller, having awaited enviarMensaje, goes on to its next job.
NextJob ==
    /\ call.pc = "done"
    /\ call' = IdleCall
    /\ UNCHANGED <<now, taskLocks, running, finished, Q, tickDue, overran, last, phone, render>>

\* ------------------------------------------- the phone functions alone
PhoneBodies ==
    { <<"5", "5", "1", "2", "3", "4", "5", "6", "7", "8", "9", "0">>,
      <<"1", "2", "3", "4", "5", "6", "7", "8", "9", "0", "1", "2">> }

PhonePrefixes ==
    { << >>, <<"+">>, <<"-">>, <<"5", "2">>, <<"5", "2", "1">>, <<"+", "5", "2", " ">>,
      <<"+", "5", "2", " ", "1", " ">>, <<"1">>, <<"0">>, <<"(", "5", "5", ")", " ">> }

\* Phone numbers as they are typed: a prefix, then up to MaxBodyLen digits.
PhoneInputs ==
    { pre \o SubSeq(body, 1, n) : pre \in PhonePrefixes, body \in PhoneBodies, n \in 0..MaxBodyLen }

IdlePhone ==
    [pc |-> "idle", input |-> << >>, valid |-> FALSE, e164 |-> << >>, jid |-> << >>,
     wa |-> << >>, wa2 |-> << >>]

\* toE164(input), the jid enviarMensaje derives from it, and
\* normalizePhoneForWA(input), once and twice.
NormalizePhone ==
    /\ phone.pc = "idle"
    /\ \E input \in PhoneInputs, valid \in BOOLEAN :
          phone' = [pc |-> "done", input |-> input, valid |-> valid,
                    e164 |-> toE164(input, valid),
                    jid |-> e164ToJid(toE164(input, valid)),
                    wa |-> normalizePhoneForWA(input),
                    wa2 |-> normalizePhoneForWA(normalizePhoneForWA(input))]
    /\ UNCHANGED <<now, taskLocks, running, finished, Q, tickDue, overran, last, call, render>>

NextPhone ==
    /\ phone.pc = "done"
    /\ phone' = IdlePhone
    /\ UNCHANGED <<now, taskLocks, running, finished, Q, tickDue, overran, last, call, render>>

\* --------------------------------------------- replacePlaceholders alone
TemplatePieces ==
    { << >>,
      <<"H", "o", "l", "a", " ">>,
      P_nombre,
      <<"{", "{">> \o K_ciudad \o <<"}", "}">>,
      <<"{", "{", "x", "}", "}">>,
      <<"{", "{">> \o K_constructor \o <<"}", "}">>,
      <<"{", "{", "a", "-", "b", "}", "}">>,
      <<"{", "{">>,
      <<"}", "}">>,
      <<"{", "{", "}", "}">> }

\* The templates made of n pieces.
RECURSIVE TemplatesOf(_)
TemplatesOf(n) ==
    IF n = 0 THEN {<< >>}
    ELSE {piece \o t : piece \in TemplatePieces, t \in TemplatesOf(n - 1)}

Templates == TemplatesOf(MaxPieces)

LeadDatas ==
    { NoAttrs,
      (K_nombre :> NameJuan) @@ (K_ciudad :> P_nombre),
      (K_nombre :> <<"A", "n", "a">>) @@ (K_ciudad :> <<"L", "e", "o", "n">>),
      K_ciudad :> <<" ", "{", "{", "x", "}", "}">> }

IdleRender == [pc |-> "idle", template |-> << >>, leadData |-> NoAttrs, out |-> << >>]

\* replacePlaceholders(template, leadData)
Render ==
    /\ render.pc = "idle"
    /\ \E template \in Templates, leadData \in LeadDatas :
          render' = [pc |-> "done", template |-> template, leadData |-> leadData,
                     out |-> replacePlaceholders(template, leadData)]
    /\ UNCHANGED <<now, taskLocks, running, finished, Q, tickDue, overran, last, call, phone>>

NextRender ==
    /\ render.pc = "done"
    /\ render' = IdleRender
    /\ UNCHANGED <<now, taskLocks, running, finished, Q, tickDue, overran, last, call, phone>>


Init ==
    /\ now = StartMs
    /\ taskLocks = EmptyMap
    /\ running = {}
    /\ finished = [n \in TaskNames |-> ""]
    /\ Q \in SUBSET QueueExportNames
    /\ tickDue = TRUE
    /\ overran = FALSE
    /\ last = NoLast
    /\ call = IdleCall
    /\ phone = IdlePhone
    /\ render = IdleRender

\* Callers of withTaskLock with actions of their own, at any times.
Next ==
    \/ CallWithTaskLock
    \/ FnReturn
    \/ FnThrow
    \/ Advance

\* These callers never reach the queue module: its exports are left fixed.
InitLock == Init /\ Q = QueueExportNames

Spec == InitLock /\ [][Next]_vars

\* processSequences called on demand, with options, at any times.
NextDemand ==
    \/ ProcessSequences
    \/ QueueResolve
    \/ QueueReject
    \/ NoQueueReturn
    \/ Advance

SpecDemand == Init /\ [][NextDemand]_vars

NextCron ==
    \/ Tick
    \/ AdvanceCron
    \/ QueueResolve
    \/ QueueReject
    \/ NoQueueReturn

SpecCron == Init /\ [][NextCron]_vars

\* A batch that calls enviarMensaje for one job after the other.
NextSend ==
    \/ Enviar
    \/ SendResolve
    \/ SendReject
    \/ NextJob

SpecSend == InitLock /\ [][NextSend]_vars

\* The phone functions applied to one number after the other.
NextNormalize ==
    \/ NormalizePhone
    \/ NextPhone

SpecPhone == InitLock /\ [][NextNormalize]_vars

\* replacePlaceholders applied to one template after the other.
NextRendering ==
    \/ Render
    \/ NextRender

SpecRender == InitLock /\ [][NextRendering]_vars

\* cron fires every tick and the clock runs; a queue call may never settle.
SpecCronFair ==
    /\ Init
    /\ [][NextCron]_vars
    /\ WF_vars(Tick)
    /\ WF_vars(AdvanceCron)
    /\ WF_vars(NoQueueReturn)

\* ------------------------------------------------------------ claims

\* C1 (as claimed): no invocation starts its action less than timeoutMinutes
\* after the most recent earlier acquisition for the same name while the
\* invocation that made that acquisition is still executing its action.
C1_NoReacquireWhileYoung ==
    (last.op = "call" /\ last.invoked /\ last.prevRunning)
        => last.prevAge >= last.timeoutMinutes * 60 * 1000

\* C2: a call that finds an entry for its name younger than
\* timeoutMinutes*60*1000 ms returns 0, does not invoke fn and leaves the
\* lock map as it was.
C2_SkipInsideWindow ==
    (/\ last.op = "call"
     /\ last.existing # Undefined
     /\ now - last.existing < last.timeoutMinutes * 60 * 1000)
        => /\ last.outcome = Returned(0)
           /\ ~last.invoked
           /\ ~last.mapChanged

C2_Witness ==
    /\ last.op = "call"
    /\ last.existing # Undefined
    /\ now - last.existing > 0
    /\ now - last.existing < last.timeoutMinutes * 60 * 1000
    /\ last.outcome = Returned(0)
    /\ running # {}

\* C3: when an invocation that acquired the lock finishes its action, by
\* returning or by throwing, the entry of its task name is gone from the map,
\* and the next call for that name invokes its action.
C3_ReleasedAfterAction ==
    /\ last.op = "settle" => ~MapHas(taskLocks, last.taskName)
    /\ (last.op = "call" /\ last.afterFinish # "") => last.invoked

C3_Witness ==
    /\ last.op = "call"
    /\ last.afterFinish = "throw"
    /\ last.invoked

\* C4: provided no queue call lasts 5 minutes or more, at most one call to
\* the queue capability is in flight, and a tick that fires while a queue
\* call is pending returns 0 without calling the queue capability.
C4_OneQueueCallInFlight ==
    ~overran =>
        /\ Cardinality(QueueCallsInFlight) <= 1
        /\ (last.op = "call" /\ last.pending > 0)
              => /\ ~last.invoked
                 /\ last.outcome = Returned(0)
                 /\ last.calls = << >>

C4_Witness ==
    /\ ~overran
    /\ last.op = "call"
    /\ last.pending = 1
    /\ ~last.invoked
    /\ now - last.existing = LockTimeoutMinutes * 60 * 1000 - TickMs

\* The number of ticks after which an entry is stale.
StaleTicks == (LockTimeoutMinutes * 60 * 1000) \div TickMs

\* C5: the periodic trigger is never wedged.  A tick that finds no entry, or
\* an entry 5 minutes old or older, calls the queue capability (also when the
\* earlier tick has not finished); so does the tick after an action finished;
\* and from every moment on, some later tick calls the queue capability.
C5_NeverWedged ==
    /\ [](/\ last.op = "call"
          /\ last.kind = "queue"
          /\ (last.existing = Undefined
                \/ now - last.existing >= LockTimeoutMinutes * 60 * 1000
                \/ last.afterFinish # "")
          => last.invoked /\ Len(last.calls) = 1)
    /\ \A k \in 0..(MaxTicks - StaleTicks) :
          (now = StartMs + k * TickMs /\ QueueFn(Q) # "null")
              ~> (/\ last.op = "call"
                  /\ last.invoked
                  /\ Len(last.calls) = 1
                  /\ now > StartMs + k * TickMs)

C5_Witness ==
    /\ last.op = "call"
    /\ last.invoked
    /\ Len(last.calls) = 1
    /\ last.prevRunning
    /\ last.prevAge = LockTimeoutMinutes * 60 * 1000

\* C6: processSequences never rejects; when the queue capability throws, or
\* the queue module exports no processing function, it resolves to 0 and the
\* lock entry is released, and the next tick calls its action.
C6_NeverRejects ==
    /\ last.op \in {"call", "settle"} => last.outcome.kind # "throw"
    /\ (last.op = "call" /\ ~last.invoked) => last.outcome = Returned(0)
    /\ (last.op = "settle" /\ (last.queueOutcome = Thrown \/ last.kind = "noqueue"))
          => /\ last.outcome = Returned(0)
             /\ ~MapHas(taskLocks, "processSequences")
    /\ (last.op = "call" /\ last.afterFinish # "") => last.invoked

C6_Witness ==
    /\ last.op = "settle"
    /\ last.queueOutcome = Thrown
    /\ last.outcome = Returned(0)

\* C7: when the queue capability returns N, an invocation of processSequences
\* that was not skipped resolves to N.
C7_ReturnsQueueCount ==
    (last.op = "settle" /\ last.queueOutcome.kind = "return")
        => last.outcome = Returned(last.queueOutcome.value)

C7_Witness ==
    /\ last.op = "settle"
    /\ last.queueOutcome.kind = "return"
    /\ last.queueOutcome.value > 0
    /\ last.outcome = last.queueOutcome

\* C8: an invocation of processSequences calls the queue capability at most
\* once, with batchSize = options.batchSize, or 200 when the option is absent.
C8_OneBoundedQueueCall ==
    (last.op \in {"call", "settle"} /\ last.kind \in {"queue", "noqueue"})
        => /\ Len(last.calls) <= 1
           /\ \A i \in 1..Len(last.calls) :
                 last.calls[i].batchSize =
                     IF last.optBatch = Undefined THEN DefaultBatchSize
                     ELSE last.optBatch

C8_Witness ==
    /\ last.op = "settle"
    /\ last.optBatch = 0
    /\ Len(last.calls) = 1
    /\ last.calls[1].batchSize = 0

\* C9: an invocation of enviarMensaje calls sock.sendMessage zero times or
\* once, whatever the lead, the message type and the content.
C9_AtMostOneSend ==
    /\ Len(call.sent) <= 1
    /\ call.pc = "sending" => Len(call.sent) = 1 /\ call.todo = << >>

C9_Witness ==
    /\ call.pc = "done"
    /\ Len(call.sent) = 1
    /\ call.raised = "none"

\* C10: the promise enviarMensaje returns always resolves: with a missing
\* lead, a type that is no string, or a send that fails.
C10_NeverPropagates ==
    call.pc = "done" => call.outcome = Returned(Undefined)

C10_Witness ==
    /\ call.pc = "done"
    /\ call.raised = "send"
    /\ Len(call.sent) = 1
    /\ call.outcome.kind = "return"

\* The kinds of message the switch of enviarMensaje has a case for.
Kinds == {T_texto, T_formulario, T_audio, T_imagen, T_video}

\* a and b are the same word but for the case of their letters.
EqualsIgnoringCase(a, b) ==
    /\ Len(a) = Len(b)
    /\ \A i \in 1..Len(a) : LowerChar(a[i]) = LowerChar(b[i])

\* The kind of the message of the call: the one its type names, 'texto' when
\* it has no type, << >> when its type names none (or is no string).
KindOfCall ==
    IF call.mensaje.nullish THEN T_texto
    ELSE IF call.mensaje.typeKind # "string" THEN << >>
    ELSE IF call.mensaje.type = << >> THEN T_texto
    ELSE IF \E k \in Kinds : EqualsIgnoringCase(call.mensaje.type, k)
         THEN CHOOSE k \in Kinds : EqualsIgnoringCase(call.mensaje.type, k)
    ELSE << >>

\* The normalized phone of the lead of the call.
E164OfCall == toE164(LeadPhone(call.lead.attrs), call.valid)

\* The rendering of the content of the call can be computed: there is a lead,
\* and for a form its name can be URL-encoded.
CanRender ==
    /\ ~call.lead.nullish
    /\ KindOfCall = T_formulario => ~EncodeThrows(Attr(call.lead.attrs, K_nombre))

\* The content of the call, rendered for its kind and trimmed.
RenderedOfCall ==
    IF KindOfCall = T_formulario
    THEN FormText(Contenido(call.mensaje), E164OfCall, call.lead.attrs)
    ELSE Trim(replacePlaceholders(Contenido(call.mensaje), call.lead.attrs))

\* C11: with no socket, or with a lead whose phone normalizes to the empty
\* string, enviarMensaje returns without a call of sock.sendMessage and
\* without an exception, whatever the type and the content of the message.
C11_ReturnsEarly ==
    (/\ call.pc # "idle"
     /\ \/ call.sock = "null"
        \/ ~call.lead.nullish /\ E164OfCall = << >>)
        => /\ call.pc = "done"
           /\ call.sent = << >>
           /\ call.raised = "none"
           /\ call.outcome = Returned(Undefined)

C11_Witness ==
    /\ call.pc = "done"
    /\ call.sock = "open"
    /\ ~call.lead.nullish
    /\ LeadPhone(call.lead.attrs) # << >>
    /\ E164OfCall = << >>
    /\ KindOfCall = T_texto
    /\ RenderedOfCall # << >>
    /\ call.sent = << >>
    /\ call.raised = "none"

\* C12: for a message of one of the five kinds whose content is empty once
\* rendered and trimmed, enviarMensaje makes no call of sock.sendMessage.
C12_NoSendOfEmpty ==
    (/\ call.pc # "idle"
     /\ KindOfCall \in Kinds
     /\ CanRender
     /\ RenderedOfCall = << >>)
        => /\ call.sent = << >>
           /\ call.pc = "done"

C12_Witness ==
    /\ call.pc = "done"
    /\ call.sock = "open"
    /\ E164OfCall # << >>
    /\ KindOfCall \in Kinds \ {T_texto}
    /\ CanRender
    /\ Contenido(call.mensaje) # << >>
    /\ RenderedOfCall = << >>
    /\ call.sent = << >>

\* C13: for a message whose type names none of the kinds ("sticker"),
\* enviarMensaje makes no call of sock.sendMessage and throws nothing,
\* whatever the content.
C13_UnknownTypeNoSend ==
    (/\ call.pc # "idle"
     /\ ~call.mensaje.nullish
     /\ call.mensaje.typeKind = "string"
     /\ KindOfCall = << >>)
        => /\ call.pc = "done"
           /\ call.sent = << >>
           /\ call.outcome = Returned(Undefined)
           /\ ~call.lead.nullish => call.raised = "none"

C13_Witness ==
    /\ call.pc = "done"
    /\ call.sock = "open"
    /\ ~call.lead.nullish
    /\ E164OfCall # << >>
    /\ call.mensaje.typeKind = "string"
    /\ KindOfCall = << >>
    /\ Trim(replacePlaceholders(Contenido(call.mensaje), call.lead.attrs)) # << >>
    /\ call.sent = << >>
    /\ call.raised = "none"

\* C14: with a socket, a lead whose phone normalizes to a non-empty e164 and
\* a content that renders non-empty, enviarMensaje makes exactly one call of
\* sock.sendMessage, to the jid of the lead, with the payload of the kind of
\* the message (its type compared without regard to case, 'texto' when it has
\* none): {text, linkPreview: false} for texto and formulario,
\* {audio: {url}, ptt: true}, {image: {url}}, {video: {url}}.
C14_OneSendOfKind ==
    (/\ call.pc # "idle"
     /\ call.sock = "open"
     /\ KindOfCall \in Kinds
     /\ CanRender
     /\ E164OfCall # << >>
     /\ RenderedOfCall # << >>)
        => /\ Len(call.sent) = 1
           /\ call.sent[1].jid = e164ToJid(E164OfCall)
           /\ call.sent[1].value = RenderedOfCall
           /\ call.sent[1].key =
                 (CASE KindOfCall \in {T_texto, T_formulario} -> "text"
                    [] KindOfCall = T_audio -> "audio"
                    [] KindOfCall = T_imagen -> "image"
                    [] KindOfCall = T_video -> "video")
           /\ call.sent[1].linkPreview =
                 (IF KindOfCall \in {T_texto, T_formulario} THEN "false" ELSE "absent")
           /\ call.sent[1].ptt = (IF KindOfCall = T_audio THEN "true" ELSE "absent")

C14_Witness ==
    /\ call.pc = "done"
    /\ call.raised = "none"
    /\ call.mensaje.type # << >>
    /\ call.mensaje.type \notin Kinds
    /\ KindOfCall = T_formulario
    /\ Len(call.sent) = 1
    /\ call.sent[1].key = "text"
    /\ call.sent[1].value = RenderedOfCall

\* s is made of exactly n digits.
IsDigits(s, n) == Len(s) = n /\ \A i \in 1..n : IsDigit(s[i])

\* C15 (as claimed): for a lead whose phone is a local number d of 10 digits,
\* the jid enviarMensaje computes is "521" d "@s.whatsapp.net", the digits
\* normalizePhoneForWA(d) yields.
C15_JidOfLocalNumber ==
    (phone.pc = "done" /\ IsDigits(phone.input, 10))
        => /\ phone.jid = S_521 \o phone.input \o S_suffix
           /\ phone.jid = phone.wa \o S_suffix

\* C16: normalizePhoneForWA applied twice gives what it gives applied once,
\* and it returns 13 digits that begin with 521 as they are.
C16_NormalizeIdempotent ==
    phone.pc = "done"
        => /\ phone.wa2 = phone.wa
           /\ (IsDigits(phone.input, 13) /\ StartsWith(phone.input, S_521))
                  => phone.wa = phone.input

C16_Witness ==
    /\ phone.pc = "done"
    /\ Len(phone.wa) = 13
    /\ Len(StripNonDigits(phone.input)) = 12
    /\ phone.wa2 = phone.wa

\* C17: toE164 of 10 digits d is "+52" d, whether the parser finds d valid or
\* not; and toE164 returns the empty string exactly when its input holds no
\* digit.
C17_E164OfLocalNumber ==
    phone.pc = "done"
        => /\ IsDigits(phone.input, 10) => phone.e164 = S_plus \o S_52 \o phone.input
           /\ phone.e164 = << >> <=> ~\E i \in 1..Len(phone.input) : IsDigit(phone.input[i])

C17_Witness ==
    /\ phone.pc = "done"
    /\ IsDigits(phone.input, 10)
    /\ ~phone.valid
    /\ phone.e164 = S_plus \o S_52 \o phone.input

\* The rendering C18 describes, from index i on: each token {{identifier}} is
\* replaced by the value of the attribute leadData has of that name, by the
\* empty string when it has none, and for nombre by the first word of the
\* value; the rest is kept, and what was put in is not scanned again.
RECURSIVE ClaimedFrom(_, _, _)
ClaimedFrom(s, i, leadData) ==
    IF i > Len(s) THEN << >>
    ELSE LET e == TokenEnd(s, i)
             field == SubSeq(s, i + 2, e - 2)
             value == IF field \in DOMAIN leadData THEN leadData[field] ELSE << >>
         IN  IF e = 0 THEN <<s[i]>> \o ClaimedFrom(s, i + 1, leadData)
             ELSE (IF field = K_nombre THEN firstName(value) ELSE value)
                  \o ClaimedFrom(s, e + 1, leadData)

\* C18 (as claimed): replacePlaceholders replaces, in one pass from left to
\* right, every token {{identifier}} by the value of that attribute of
\* leadData, by the empty string when the attribute is missing, and for nombre
\* by the first word of the trimmed value; text outside tokens is kept and
\* tokens inside a value are not expanded.
C18_RendersAsClaimed ==
    render.pc = "done" => render.out = ClaimedFrom(render.template, 1, render.leadData)

\* C19 (as claimed): the text enviarMensaje sends for a formulario holds no
\* line break and no {{telefono}} or {{nombre}} any more.
C19_FormTextClean ==
    (/\ call.pc # "idle"
     /\ KindOfCall = T_formulario
     /\ Len(call.sent) = 1)
        => /\ \A i \in 1..Len(call.sent[1].value) : call.sent[1].value[i] \notin {"\n", "\r"}
           /\ IndexOf(call.sent[1].value, P_telefono, 1) = 0
           /\ IndexOf(call.sent[1].value, P_nombre, 1) = 0

\* C20: the lock map holds an entry for a task name only while some
\* invocation of withTaskLock for that name is executing its action; an
\* action that finished or failed leaves no entry behind.
C20_NoOrphanedLock ==
    \A n \in TaskNames :
        MapHas(taskLocks, n) => \E r \in running : r.taskName = n

C20_Witness ==
    /\ last.op = "settle"
    /\ last.outcome = Thrown
    /\ last.mapChanged
    /\ ~MapHas(taskLocks, last.taskName)
    /\ \A r \in running : r.taskName # last.taskName

====
